---- MODULE Spec2Model ----
(***************************************************************************)
(* The MNWI package codec of flopy (flopy/modflow/mfmnwi.py):              *)
(* ModflowMnwi.__init__ (direct construction and registration with the     *)
(* parent model), ModflowMnwi.load (text -> package) and                   *)
(* ModflowMnwi.write_file (package -> text).                               *)
(*                                                                         *)
(* Text is modelled character by character: a line is a sequence of        *)
(* one-character strings (without its terminating newline), a file is a    *)
(* sequence of lines.  Integers are formatted into decimal digits and      *)
(* padded to their field width as '%10i' and '%2i' do, and parsed back by  *)
(* splitting on blanks, so that adjacent fields that fill their width run  *)
(* together exactly as they do in the written file.                        *)
(***************************************************************************)
EXTENDS Integers, Sequences, FiniteSets, TLC

\* Longest observation list handed to the constructor.
MaxObs == 2

\* Field width of '%10i' in write_file.
FlagWidth == 10

\* Field width of '%2i' (UNIT) in write_file.
UnitWidth == 2

----------------------------------------------------------------------------
(* Characters and integer formatting ('%i', '%10i', '%2i', '%s').          *)

DigitChars == <<"0", "1", "2", "3", "4", "5", "6", "7", "8", "9">>

IsDigit(c) == \E d \in 1..10 : DigitChars[d] = c

DigitVal(c) == (CHOOSE d \in 1..10 : DigitChars[d] = c) - 1

RECURSIVE Digits(_)
\* decimal digits of n >= 0, most significant first
Digits(n) ==
  IF n < 10 THEN <<DigitChars[n + 1]>>
  ELSE Append(Digits(n \div 10), DigitChars[(n % 10) + 1])

\* '%i' % n
Str(n) == IF n < 0 THEN <<"-">> \o Digits(0 - n) ELSE Digits(n)

RECURSIVE Blanks(_)
Blanks(k) == IF k <= 0 THEN << >> ELSE <<" ">> \o Blanks(k - 1)

\* right-justify s in a field of width w; a longer s is kept whole
Pad(s, w) == Blanks(w - Len(s)) \o s

\* '%i' written for '%10i': the field is not padded
Fmt10_unpadded(n) == Str(n)

\* '%10i' % n
Fmt10(n) == Pad(Str(n), FlagWidth)

\* '%2i' % n
Fmt2(n) == Pad(Str(n), UnitWidth)

----------------------------------------------------------------------------
(* The package object.                                                     *)

\* self.heading (line 55)
heading ==
  << "#", " ", "M", "u", "l", "t", "i", "-", "n", "o", "d", "e",
     " ", "w", "e", "l", "l", " ", "i", "n", "f", "o", "r", "m",
     "a", "t", "i", "o", "n", " ", "(", "M", "N", "W", "I", ")",
     " ", "f", "i", "l", "e", " ", "f", "o", "r", " ", "M", "O",
     "D", "F", "L", "O", "W", ",", " ", "g", "e", "n", "e", "r",
     "a", "t", "e", "d", " ", "b", "y", " ", "F", "l", "o", "p",
     "y" >>

\* Python's None
None == [none |-> TRUE]

\* The keyword arguments of ModflowMnwi(...), which become the attributes
\* of the package object (lines 56-60).
MkArgs(w, q, b, n, obs) ==
  [wel1flag |-> w, qsumflag |-> q, byndflag |-> b, mnwobs |-> n,
   wellid_unit_qndflag_qhbflag_concflag |-> obs]

\* The three assertions of __init__ (lines 63-65).
InitAsserts(a) == a.wel1flag >= 0 /\ a.qsumflag >= 0 /\ a.byndflag >= 0

\* The warning test of __init__ (line 67).
CountMismatch(a) == Len(a.wellid_unit_qndflag_qhbflag_concflag) # a.mnwobs

\* add_package called ahead of the assertions
InitRegisters_first(a) == TRUE

\* Whether __init__ reaches self.parent.add_package(self) (line 70): it is
\* the last statement, after the assertions.
InitRegisters(a) == InitAsserts(a)

\* ModflowMnwi.__init__ as a whole: the outcome, whether the warning was
\* printed, whether add_package was called, and the object built.
ModflowMnwi_init(a) ==
  [outcome  |-> IF InitAsserts(a) THEN "ok" ELSE "AssertionError",
   warning  |-> InitAsserts(a) /\ CountMismatch(a),
   register |-> InitRegisters(a),
   self     |-> IF InitAsserts(a) THEN a ELSE None]

----------------------------------------------------------------------------
(* write_file.                                                             *)

\* line 128
FlagsLine(self) == Fmt10(self.wel1flag) \o Fmt10(self.qsumflag) \o Fmt10(self.byndflag)

\* line 131
CountLine(self) == Fmt10(self.mnwobs)

\* lines 142 and 147: '%s %2i%10i%10i\n' and '%s %2i%10i%10i%10i\n'
EntryLine(e) ==
  e[1] \o <<" ">> \o Fmt2(e[2]) \o Fmt10(e[3]) \o Fmt10(e[4])
    \o (IF Len(e) = 5 THEN Fmt10(e[5]) ELSE << >>)

\* the assertions of lines 139-140
QFlagsOk(e) == e[3] >= 0 /\ e[4] >= 0

\* the assertion of line 145
ConcOk(e) == 0 <= e[5] /\ e[5] <= 3

\* the assertion on CONCflag left out
EntryAsserts_noconc(e) == QFlagsOk(e)

\* the assertions that guard the line of entry e (lines 139-146)
EntryAsserts(e) == QFlagsOk(e) /\ (Len(e) = 5 => ConcOk(e))

\* range(self.mnwobs - 1): the last entry is left out
LoopBound_short(self) == self.mnwobs - 1

\* range(self.mnwobs) of line 134
LoopBound(self) == self.mnwobs

RECURSIVE WriteEntries(_, _, _)
\* The loop of lines 134-147 from index i on, with the lines written so far.
WriteEntries(self, i, out) ==
  LET obs == self.wellid_unit_qndflag_qhbflag_concflag IN
  IF i >= LoopBound(self) THEN [outcome |-> "ok", lines |-> out]
  ELSE IF i >= Len(obs) THEN [outcome |-> "IndexError", lines |-> out]
  ELSE IF ~EntryAsserts(obs[i + 1]) THEN [outcome |-> "AssertionError", lines |-> out]
  ELSE WriteEntries(self, i + 1, Append(out, EntryLine(obs[i + 1])))

\* Whether write_file reaches f_mnwi.close() (line 149): only when the loop
\* ran to its end.
WriteCloses(outcome) == outcome = "ok"

\* write_file as a whole (lines 122-149).
WriteFileResult(self) ==
  LET r == WriteEntries(self, 0, <<heading, FlagsLine(self), CountLine(self)>>) IN
  [outcome |-> r.outcome, lines |-> r.lines, closed |-> WriteCloses(r.outcome)]

----------------------------------------------------------------------------
(* Tokenizing and parsing (flopy.utils.flopy_io.line_parse and pop_item).  *)

CommentChar == "#"

\* the part of a line before its first comment marker
StripComment(s) ==
  LET marks == {i \in 1..Len(s) : s[i] = CommentChar} IN
  IF marks = {} THEN s
  ELSE SubSeq(s, 1, (CHOOSE i \in marks : \A j \in marks : i <= j) - 1)

RECURSIVE Split(_, _, _, _)
\* str.split(): the maximal runs of non-blank characters of s, in order;
\* i is the next index to scan, cur the run being collected
Split(s, i, cur, acc) ==
  IF i > Len(s) THEN (IF cur = << >> THEN acc ELSE Append(acc, cur))
  ELSE IF s[i] = " "
       THEN Split(s, i + 1, << >>, IF cur = << >> THEN acc ELSE Append(acc, cur))
       ELSE Split(s, i + 1, Append(cur, s[i]), acc)

\* line_parse(line): the tokens of a line, its comment stripped
line_parse(s) == Split(StripComment(s), 1, << >>, << >>)

\* whether int(tok) succeeds: an optional sign and at least one digit
IsInt(tok) ==
  LET d == IF tok # << >> /\ Head(tok) = "-" THEN Tail(tok) ELSE tok IN
  /\ d # << >>
  /\ \A i \in 1..Len(d) : IsDigit(d[i])

RECURSIVE DigitsVal(_)
DigitsVal(d) ==
  IF d = << >> THEN 0
  ELSE 10 * DigitsVal(SubSeq(d, 1, Len(d) - 1)) + DigitVal(d[Len(d)])

\* int(tok), for a tok with IsInt(tok)
ToInt(tok) == IF Head(tok) = "-" THEN 0 - DigitsVal(Tail(tok)) ELSE DigitsVal(tok)

\* pop_item(line, dtype): the first token of line, converted, and the rest
\* of the line; a missing or unconvertible token is an error.
pop_item(line, dtype) ==
  IF line = << >> THEN [ok |-> FALSE]
  ELSE IF dtype = "str" THEN [ok |-> TRUE, val |-> Head(line), rest |-> Tail(line)]
  ELSE IF IsInt(Head(line)) THEN [ok |-> TRUE, val |-> ToInt(Head(line)), rest |-> Tail(line)]
  ELSE [ok |-> FALSE]

\* pop_item(line) as called for MNWOBS on line 92: an integer
pop_count(line) == pop_item(line, "int")

----------------------------------------------------------------------------
(* load.                                                                   *)

\* line 89: wel1flag, qsumflag, byndflag = map(int, line)
UnpackFlags(line) ==
  IF Len(line) = 3 /\ \A i \in 1..3 : IsInt(line[i])
  THEN [ok |-> TRUE, val |-> <<ToInt(line[1]), ToInt(line[2]), ToInt(line[3])>>]
  ELSE [ok |-> FALSE]

\* "if len(line) > 0": gwt is not consulted
TakesConc_nogwt(gwt, rest) == Len(rest) > 0

\* line 103: if gwt and len(line) > 0
TakesConc(gwt, rest) == gwt /\ Len(rest) > 0

\* lines 97-105 for one tokenized line
ParseEntry(line, gwt) ==
  LET p1 == pop_item(line, "str") IN
  IF ~p1.ok THEN [ok |-> FALSE] ELSE
  LET p2 == pop_item(p1.rest, "int") IN
  IF ~p2.ok THEN [ok |-> FALSE] ELSE
  LET p3 == pop_item(p2.rest, "int") IN
  IF ~p3.ok THEN [ok |-> FALSE] ELSE
  LET p4 == pop_item(p3.rest, "int") IN
  IF ~p4.ok THEN [ok |-> FALSE] ELSE
  LET tmp == <<p1.val, p2.val, p3.val, p4.val>> IN
  IF TakesConc(gwt, p4.rest)
  THEN LET p5 == pop_item(p4.rest, "int") IN
       IF ~p5.ok THEN [ok |-> FALSE] ELSE [ok |-> TRUE, val |-> Append(tmp, p5.val)]
  ELSE [ok |-> TRUE, val |-> tmp]

\* range(mnwobs - 1): one entry line too few is read
EntryLinesToRead_short(mnwobs) == IF mnwobs > 0 THEN mnwobs - 1 ELSE 0

\* range(mnwobs) under "if mnwobs > 0" (lines 94-95): the number of entry
\* lines the loop reads
EntryLinesToRead(mnwobs) == IF mnwobs > 0 THEN mnwobs ELSE 0

RECURSIVE ReadEntries(_, _, _, _, _)
\* The loop of lines 95-105: n entries still to read, the cursor at pos.
ReadEntries(lines, pos, gwt, n, acc) ==
  IF n = 0 THEN [outcome |-> "ok", pos |-> pos, val |-> acc]
  ELSE IF pos >= Len(lines) THEN [outcome |-> "StopIteration", pos |-> pos]
  ELSE LET e == ParseEntry(line_parse(lines[pos + 1]), gwt) IN
       IF ~e.ok THEN [outcome |-> "FormatError", pos |-> pos + 1]
       ELSE ReadEntries(lines, pos + 1, gwt, n - 1, Append(acc, e.val))

\* load from the stream position pos on (lines 87-108): the outcome, the
\* final cursor, and what the constructor call at the end produced.
LoadResult(lines, pos, gwt) ==
  LET fail(o, p) == [outcome |-> o, pos |-> p, warning |-> FALSE,
                     register |-> FALSE, self |-> None] IN
  IF pos >= Len(lines) THEN fail("StopIteration", pos) ELSE
  LET flags == UnpackFlags(line_parse(lines[pos + 1])) IN
  IF ~flags.ok THEN fail("ValueError", pos + 1) ELSE
  IF pos + 1 >= Len(lines) THEN fail("StopIteration", pos + 1) ELSE
  LET cnt == pop_count(line_parse(lines[pos + 2])) IN
  IF ~cnt.ok THEN fail("FormatError", pos + 2) ELSE
  LET es == ReadEntries(lines, pos + 2, gwt, EntryLinesToRead(cnt.val), << >>) IN
  IF es.outcome # "ok" THEN fail(es.outcome, es.pos) ELSE
  LET r == ModflowMnwi_init(MkArgs(flags.val[1], flags.val[2], flags.val[3],
                                   cnt.val, es.val)) IN
  [outcome |-> r.outcome, pos |-> es.pos, warning |-> r.warning,
   register |-> r.register, self |-> r.self]

----------------------------------------------------------------------------
(* State.                                                                  *)

VARIABLES
  args,               \* the arguments the caller constructs a package with
  infile,             \* the lines of the input file on disk
  package,            \* the package most recently constructed, or None
  f,                  \* the stream of the last load
  f_mnwi,             \* the file object of the last write_file
  call                \* the last call, how it ended, and the number of
                      \* parent.add_package calls it made

vars == <<args, infile, package, f, f_mnwi, call>>

WELL_A == <<"W", "E", "L", "L", "-", "A">>
WELL_B == <<"B">>
WELL_C == <<"C", "#", "1">>

\* ObservationEntry values the caller constructs with: [wellid, unit,
\* qndflag, qhbflag] with or without concflag.
ArgEntries ==
  { <<WELL_A, 5, 0, 1>>,
    <<WELL_B, 6, 1, 0, 2>>,
    <<WELL_B, 6, -1, 0>>,
    <<WELL_A, 5, 0, -1, 0>>,
    <<WELL_B, 16, 0, 1, 4>>,
    <<WELL_A, 5, 0, 1000000000>>,
    <<WELL_C, 7, 0, 0>> }

RECURSIVE SeqsUpTo(_, _)
\* the sequences over S of length at most n
SeqsUpTo(S, n) ==
  IF n = 0 THEN { << >> }
  ELSE LET shorter == SeqsUpTo(S, n - 1) IN
       shorter \cup { Append(s, x) : s \in {t \in shorter : Len(t) = n - 1}, x \in S }

\* (wel1flag, qsumflag, byndflag) values the caller constructs with: those
\* that pass the assertions of __init__ and those that fail one of them
GoodArgHeaders == { <<1, 1, 1>>, <<1, 1000000000, 1>> }
BadArgHeaders == { <<-1, 0, 0>>, <<0, -1, 0>>, <<1, 1, -1>> }

ArgsSet ==
  { MkArgs(h[1], h[2], h[3], n, obs) :
      h \in GoodArgHeaders, n \in -1..(MaxObs + 1), obs \in SeqsUpTo(ArgEntries, MaxObs) }
    \cup
  { MkArgs(h[1], h[2], h[3], n, obs) :
      h \in BadArgHeaders, n \in 0..1, obs \in SeqsUpTo(ArgEntries, 1) }

RECURSIVE Join(_)
\* a line made of the given pieces, one blank between them
Join(pieces) ==
  IF pieces = << >> THEN << >>
  ELSE IF Len(pieces) = 1 THEN pieces[1]
  ELSE pieces[1] \o <<" ">> \o Join(Tail(pieces))

X == <<"x">>

\* first lines of input files: those that line 89 and the assertions of
\* __init__ accept, and those that one of them rejects
GoodHeaderLines ==
  { Join(<<Str(1), Str(1), Str(1)>>),
    Join(<<Blanks(2), Str(0), Blanks(1), Str(2), Str(0), <<"#">>, X>>) }

BadHeaderLines ==
  { Join(<<Str(1), Str(1)>>),
    Join(<<Str(1), X, Str(1)>>),
    Join(<<Str(1), Str(2), Str(3), Str(0)>>),
    Join(<<Str(-1), Str(0), Str(0)>>) }

HeaderLines == GoodHeaderLines \cup BadHeaderLines

\* second lines of input files
CountLines ==
  { Str(0), Str(1), Join(<<Blanks(8), Str(2), X>>), Str(-1), X, << >> }

\* entry lines of input files
EntryLines ==
  { Join(<<WELL_A, Blanks(0), Str(5), Blanks(7), Str(0), Blanks(7), Str(1)>>),
    Join(<<WELL_B, Blanks(0), Str(6), Blanks(7), Str(1), Blanks(7), Str(0), Blanks(7), Str(2)>>),
    Join(<<WELL_B, Str(6), Str(1)>>),
    Join(<<WELL_B, X, Str(0), Str(0)>>),
    Join(<<WELL_A, Str(5), Str(0), Str(1), X>>),
    Join(<<WELL_B, Str(6), Str(-1), Str(0), Str(4)>>) }

\* The input files: a first line, a second line and at most MaxObs entry
\* lines, and the files that end before their second line.
InputFiles ==
  { << >> } \cup { <<h>> : h \in HeaderLines }
    \cup { <<h, c>> \o es :
             h \in GoodHeaderLines, c \in CountLines, es \in SeqsUpTo(EntryLines, MaxObs) }
    \cup { <<h, c>> \o es :
             h \in BadHeaderLines, c \in {Str(0), Str(1)}, es \in SeqsUpTo(EntryLines, 1) }

\* The caller either constructs directly and has no input file (an empty
\* one), or loads an input file and has nothing to construct with (a
\* construction that fails its first assertion).
NoInput == << >>
NoArgs == MkArgs(-1, 0, 0, 0, << >>)

NoStream == [exists |-> FALSE, lines |-> << >>, pos |-> 0, closed |-> TRUE, own |-> FALSE]
NoFile == [exists |-> FALSE, lines |-> << >>, closed |-> TRUE, self |-> None]
NoCall == [op |-> "none", outcome |-> "ok", warning |-> FALSE, ret |-> None,
           add_package |-> 0, gwt |-> FALSE, start |-> 0, src |-> "none"]

Init ==
  /\ \/ args \in ArgsSet /\ infile = NoInput
     \/ args = NoArgs /\ infile \in InputFiles
  /\ package = None
  /\ f = NoStream
  /\ f_mnwi = NoFile
  /\ call = NoCall

----------------------------------------------------------------------------
(* Operations.                                                             *)

\* ModflowMnwi(model, wel1flag=..., ...): direct construction.
Construct ==
  /\ LET r == ModflowMnwi_init(args) IN
     /\ package' = IF r.outcome = "ok" THEN r.self ELSE package
     /\ call' = [op |-> "init", outcome |-> r.outcome, warning |-> r.warning,
                 ret |-> r.self, add_package |-> IF r.register THEN 1 ELSE 0,
                 gwt |-> FALSE, start |-> 0, src |-> "none"]
  /\ UNCHANGED <<args, infile, f, f_mnwi>>

\* package.write_file(): open(self.file_name[0], 'w') truncates the file,
\* the lines are written, and the file is closed if line 149 is reached.
WriteFile ==
  /\ package # None
  /\ LET r == WriteFileResult(package) IN
     /\ f_mnwi' = [exists |-> TRUE, lines |-> r.lines, closed |-> r.closed,
                   self |-> package]
     /\ call' = [op |-> "write_file", outcome |-> r.outcome, warning |-> FALSE,
                 ret |-> None, add_package |-> 0,
                 gwt |-> FALSE, start |-> 0, src |-> "none"]
  /\ UNCHANGED <<args, infile, package, f>>

\* Whether load closes the stream it opened: it has no close() call.
LoadCloses(outcome) == FALSE

\* ModflowMnwi.load(f, model, gwt=gwt).  For the input file f is its name,
\* and load opens it itself; the file that write_file wrote and closed is
\* read through a stream the caller opened and advanced past `start` lines.
Load ==
  \E src \in {"infile", "outfile"}, start \in 0..1, gwt \in BOOLEAN :
    /\ src = "outfile" => f_mnwi.exists /\ f_mnwi.closed
    /\ src = "infile" => start = 0
    /\ LET lines == IF src = "infile" THEN infile ELSE f_mnwi.lines
           own == src = "infile"
           r == LoadResult(lines, start, gwt) IN
       /\ f' = [exists |-> TRUE, lines |-> lines, pos |-> r.pos,
                closed |-> own /\ LoadCloses(r.outcome), own |-> own]
       /\ package' = IF r.outcome = "ok" THEN r.self ELSE package
       /\ call' = [op |-> "load", outcome |-> r.outcome, warning |-> r.warning,
                   ret |-> r.self, add_package |-> IF r.register THEN 1 ELSE 0,
                   gwt |-> gwt, start |-> start, src |-> src]
    /\ UNCHANGED <<args, infile, f_mnwi>>

Next == Construct \/ WriteFile \/ Load

Spec == Init /\ [][Next]_vars

----------------------------------------------------------------------------
(* Properties.                                                             *)

Observations(r) == r.wellid_unit_qndflag_qhbflag_concflag

\* A well id that is the first token of its line: not empty, no blank and
\* no comment marker in it.
OneToken(w) == w # << >> /\ \A i \in 1..Len(w) : w[i] # " " /\ w[i] # CommentChar

\* A Record that satisfies the invariants of the data model.
Validated(r) ==
  /\ InitAsserts(r)
  /\ r.mnwobs >= 0
  /\ \A k \in 1..Len(Observations(r)) :
       /\ OneToken(Observations(r)[k][1])
       /\ QFlagsOk(Observations(r)[k])
       /\ Len(Observations(r)[k]) = 5 => ConcOk(Observations(r)[k])

\* The line the format prescribes for entry e: the well id, a blank, the
\* unit in 2 columns, then every flag of the entry in 10 columns.
FormatLine(e) ==
  LET flag(k) == Pad(Str(e[k]), 10) IN
  e[1] \o <<" ">> \o Pad(Str(e[2]), 2) \o flag(3) \o flag(4)
    \o (IF Len(e) > 4 THEN flag(5) ELSE << >>)

\* The file the format prescribes for the header of r and its first n entries.
FormatFile(r, n) ==
  << heading,
     Pad(Str(r.wel1flag), 10) \o Pad(Str(r.qsumflag), 10) \o Pad(Str(r.byndflag), 10),
     Pad(Str(r.mnwobs), 10) >>
    \o [k \in 1..n |-> FormatLine(Observations(r)[k])]

\* The offending entries of r, by position.
Offending(r) ==
  {k \in 1..Len(Observations(r)) :
     LET e == Observations(r)[k] IN
     e[3] < 0 \/ e[4] < 0 \/ (Len(e) = 5 /\ (e[5] < 0 \/ e[5] > 3))}

FirstOffending(r) == CHOOSE k \in Offending(r) : \A j \in Offending(r) : k <= j

Max0(n) == IF n > 0 THEN n ELSE 0

\* C1 (as claimed): a Record built by direct construction whose
\* observation_count differs from its number of entries is constructed with
\* only a warning, and serializing it completes without an error.
C1_CountLeniency ==
  /\ (call.op = "init" /\ InitAsserts(args) /\ CountMismatch(args))
       => call.outcome = "ok" /\ call.warning
  /\ (call.op = "write_file" /\ package = args /\ CountMismatch(package)
        /\ Validated(package))
       => call.outcome = "ok"

\* C2 (as claimed): parsing the lines serialize wrote for a validated Record
\* without count mismatch, the heading skipped, gives back that Record.
C2_RoundTripAsClaimed ==
  (call.op = "load" /\ call.src = "outfile" /\ call.start = 1
     /\ Validated(f_mnwi.self) /\ ~CountMismatch(f_mnwi.self))
    => call.outcome = "ok" /\ call.ret = f_mnwi.self

\* A field that follows another field on its line keeps a leading blank.
Narrow(n) == Len(Str(n)) < FlagWidth

\* C2 (amended): the round trip holds when, besides, the parse runs in
\* solute-transport mode if any entry carries conc_flag, and qsum_flag,
\* bynd_flag and every qnd_flag and qhb_flag have fewer than 10 digits.
C2_RoundTrip ==
  (call.op = "load" /\ call.src = "outfile" /\ call.start = 1
     /\ Validated(f_mnwi.self) /\ ~CountMismatch(f_mnwi.self)
     /\ Narrow(f_mnwi.self.qsumflag) /\ Narrow(f_mnwi.self.byndflag)
     /\ \A k \in 1..Len(Observations(f_mnwi.self)) :
          LET e == Observations(f_mnwi.self)[k] IN
          /\ Narrow(e[3]) /\ Narrow(e[4])
          /\ Len(e) = 5 => call.gwt)
    => call.outcome = "ok" /\ call.ret = f_mnwi.self

C2_Witness ==
  /\ call.op = "load" /\ call.src = "outfile" /\ call.start = 1 /\ call.gwt
  /\ call.outcome = "ok"
  /\ call.ret = f_mnwi.self
  /\ Len(Observations(call.ret)) = 2
  /\ \E k \in 1..2 : Len(Observations(call.ret)[k]) = 5
  /\ \E k \in 1..2 : Len(Observations(call.ret)[k]) = 4

\* C3 (as claimed): every Record that exists has qnd_flag >= 0 and
\* qhb_flag >= 0 in every entry and every present conc_flag within [0,3],
\* because construction fails otherwise.
C3_EntryBoundsAtConstruction ==
  package # None => Offending(package) = {}

\* C4: add_package is called exactly once by each direct construction or
\* parse that succeeds and not at all by one that fails, and a failed one
\* returns no Record.
C4_AllOrNothing ==
  call.op \in {"init", "load"} =>
    /\ call.outcome = "ok" =>
         call.add_package = 1 /\ call.ret # None /\ package = call.ret
    /\ call.outcome # "ok" => call.add_package = 0 /\ call.ret = None

C4_Witness ==
  /\ call.op = "load" /\ call.outcome \in {"StopIteration", "FormatError", "ValueError"}
  /\ call.add_package = 0
  /\ package # None

\* C5 (as claimed): no call ends with a handle it opened still open.
C5_HandlesReleased ==
  /\ (f.exists /\ f.own) => f.closed
  /\ f_mnwi.exists => f_mnwi.closed

\* C6 (as claimed): when entry i is the first offending entry of the Record,
\* serialize fails and has written the heading, the flags line, the count
\* line and the lines of the entries before i, and nothing else.
C6_ValidateBeforeEmitAsClaimed ==
  (call.op = "write_file" /\ Offending(package) # {})
    => /\ call.outcome # "ok"
       /\ f_mnwi.lines = FormatFile(package, FirstOffending(package) - 1)

\* C6 (amended): the same, when the first offending entry is among the first
\* observation_count entries; serialize then fails on its assertion.
C6_ValidateBeforeEmit ==
  (call.op = "write_file" /\ Offending(package) # {}
     /\ FirstOffending(package) <= package.mnwobs)
    => /\ call.outcome = "AssertionError"
       /\ f_mnwi.lines = FormatFile(package, FirstOffending(package) - 1)

C6_Witness ==
  /\ call.op = "write_file" /\ call.outcome = "AssertionError"
  /\ Offending(package) # {} /\ FirstOffending(package) = 2
  /\ package.mnwobs >= 2
  /\ Len(f_mnwi.lines) = 4

\* C7: after a successful parse, the entry of each entry line carries a
\* conc_flag exactly when gwt is set and the line has a fifth token, and the
\* conc_flag is the value of that token.
C7_ConditionalConc ==
  (call.op = "load" /\ call.outcome = "ok")
    => \A k \in 1..Len(Observations(call.ret)) :
         LET toks == line_parse(f.lines[call.start + 2 + k])
             e == Observations(call.ret)[k] IN
         /\ Len(e) = 5 <=> (call.gwt /\ Len(toks) >= 5)
         /\ Len(e) # 5 => Len(e) = 4
         /\ Len(e) = 5 => e[5] = ToInt(toks[5])

C7_Witness ==
  /\ call.op = "load" /\ call.outcome = "ok" /\ call.gwt /\ call.src = "infile"
  /\ call.ret.mnwobs = 2
  /\ Len(Observations(call.ret)) = 2
  /\ Len(Observations(call.ret)[1]) = 4
  /\ Len(Observations(call.ret)[2]) = 5
  /\ Observations(call.ret)[2][5] = 2

C9_ExactCountAsClaimed ==
  (call.op = "load" /\ call.outcome = "ok")
    => /\ f.pos = call.start + 2 + call.ret.mnwobs
       /\ Len(Observations(call.ret)) = call.ret.mnwobs
       /\ ~call.warning

\* C9 (amended): a successful parse has consumed the flags line, the count
\* line and exactly max(observation_count, 0) entry lines, and its Record
\* has exactly that many entries, those of the lines in input order; the
\* count-mismatch warning is given exactly when observation_count is negative.
C9_ExactCount ==
  (call.op = "load" /\ call.outcome = "ok")
    => LET n == Max0(call.ret.mnwobs) IN
       /\ f.pos = call.start + 2 + n
       /\ Len(Observations(call.ret)) = n
       /\ \A k \in 1..n :
            Observations(call.ret)[k][1] = line_parse(f.lines[call.start + 2 + k])[1]
       /\ call.warning <=> call.ret.mnwobs < 0

C9_Witness ==
  /\ call.op = "load" /\ call.outcome = "ok"
  /\ call.ret.mnwobs = 1
  /\ Len(f.lines) = 4 /\ f.pos = 3
  /\ Len(Observations(call.ret)) = 1

\* C10 (as claimed): the flags step of parse takes the first three tokens of
\* the first line and fails only when there are fewer than three tokens or
\* one of the three is not an integer.
C10_HeaderFlags ==
  (call.op = "load" /\ call.start < Len(f.lines))
    => LET toks == line_parse(f.lines[call.start + 1])
           good == Len(toks) >= 3 /\ \A i \in 1..3 : IsInt(toks[i]) IN
       /\ good <=> call.outcome # "ValueError"
       /\ call.outcome = "ok" =>
            /\ call.ret.wel1flag = ToInt(toks[1])
            /\ call.ret.qsumflag = ToInt(toks[2])
            /\ call.ret.byndflag = ToInt(toks[3])

====
